---- MODULE Spec2Model ----
(***************************************************************************)
(* kodi_panel: the display cycle driver of src/kodi_panel.py.              *)
(*                                                                         *)
(* Two threads run update_display(): the timed loop of main() and the      *)
(* RPi.GPIO callback thread that runs touch_callback() (RPi.GPIO runs all  *)
(* callbacks on one thread, one after the other).  Each step below is one  *)
(* group of source lines that touches the shared globals at most once in   *)
(* a way the other thread can see, so that every interleaving of the two   *)
(* threads on screen_press, kodi_active and the lock is explored.          *)
(***************************************************************************)
EXTENDS Integers, Sequences, FiniteSets, TLC

\* ------------------------------------------------------------------ bounds
MaxPress  == 3      \* touch presses delivered in one run
MaxApply == 4       \* applications of next() to one mode
MaxGlyphs == 21     \* wide glyphs at the head of a text to draw
MaxOutage == 1      \* times the server stops answering properly
MaxTime   == 15     \* last clock value, in seconds

\* ------------------------------------------------------- program constants
screen_wake == 15
thumb_height == 140
fullscreen_size == 235          \* frameSize[1]-5

None == "None"
default_thumb   == "./images/music_icon.png"
default_airplay == "./images/airplay_thumb.png"
airplay_thumb   == "/storage/.kodi/temp/airtunes_album_thumb.png"

Threads == {"main", "touch"}

\* class ADisplay(Enum): the members in definition order
ADisplay == <<"DEFAULT", "FULLSCREEN", "FULL_PROG">>

\* members.index(self), 0-based as in Python
MemberIndex(m) == (CHOOSE i \in 1..Len(ADisplay) : ADisplay[i] = m) - 1

\* ADisplay.next without the wrap: the last member stays where it is
ADisplay_next_nowrap(self) ==
    LET index == MemberIndex(self) + 1
    IN  IF index >= Len(ADisplay) THEN ADisplay[Len(ADisplay)] ELSE ADisplay[index + 1]

\* ADisplay.next
ADisplay_next(self) ==
    LET index == MemberIndex(self) + 1
    IN  IF index >= Len(ADisplay) THEN ADisplay[0 + 1] ELSE ADisplay[index + 1]

\* LAYOUT[mode]["thumb"]["size"]
ThumbSize(mode) == IF mode = "DEFAULT" THEN thumb_height ELSE fullscreen_size

\* ------------------------------------------------------------ environment
\* Player.GetActivePlayers results: the list of the types of active players
PlayerLists == { <<>>, <<"audio">>, <<"video">>, <<"picture">>, <<"video", "audio">> }

\* MusicPlayer.Cover values the server reports
Covers == { "", "image://cover", "http://cover",
            "special://temp/airtunes_album_thumb.png" }

\* percentage reported by Player.GetProperties, or -1 when the key is absent
ProgValues == { -1, 50 }

\* special_re.match(cover)
SpecialMatch(c) == c = "special://temp/airtunes_album_thumb.png"

\* the condition of the first if of get_artwork
IsRemoteCover(c) == c # "" /\ c # "DefaultAlbumCover.png" /\ ~SpecialMatch(c)

\* image_path.startswith("http://")
StartsWithHttp(c) == c = "http://cover"

\* an image: where its pixels come from and the height it was resized to
\* (0 = used as it is)
Img(src, size) == <<src, size>>
NoImg == <<None, 0>>

\* a label the snapshot does not contain: info[label] raises KeyError
Missing == "<missing>"

\* MusicPlayer.Codec of the snapshot: a codec, or no such label
Codecs == { "flac", Missing }

\* no call of get_artwork since the artwork cache was reset
NoSlot == <<None, "none">>

\* a number p/q as the pair <<p, q>>, q > 0; <<0, 0>> stands for no result
NotCalled == <<0, 0>>

RatLe(a, b) == a[1] * b[2] <= b[1] * a[2]
RatLt(a, b) == a[1] * b[2] < b[1] * a[2]
RatAdd(a, b) == << a[1] * b[2] + b[1] * a[2], a[2] * b[2] >>
RatSub(a, b) == << a[1] * b[2] - b[1] * a[2], a[2] * b[2] >>
RatMul(a, b) == << a[1] * b[1], a[2] * b[2] >>
Rat(n) == << n, 1 >>

\* no function called, nothing drawn or returned yet
NoArgs == [fn |-> "none"]
NoOut == [done |-> FALSE]

frameSize == << 320, 240 >>

\* ---------------------------------------------------------------------
\* progress_bar, src/kodi_panel.py lines 256-269.  A rectangle is
\* <<x0, y0, x1, y1>>, each coordinate a number p/q.

\* the three bars of LAYOUT: the short and the long bar of the default
\* mode (lines 141-143) and the vertical bar of FULL_PROG (lines 175-177)
Bars ==
    { [x |-> 150, y |-> 7, w |-> 104, h |-> 8, vertical |-> FALSE],
      [x |-> 150, y |-> 7, w |-> 164, h |-> 8, vertical |-> FALSE],
      [x |-> frameSize[1] - 12, y |-> 1, w |-> 10, h |-> frameSize[2] - 4,
       vertical |-> TRUE] }

\* the fractions handed to progress_bar: percentage / 100 for percentages
\* -50, 0, 0.5, 1, 50, 100 and 150
Fractions == { <<-1, 2>>, <<0, 1>>, <<1, 200>>, <<1, 100>>, <<1, 2>>, <<1, 1>>, <<3, 2>> }

\* lines 259-262
bar_fraction(progress) ==
    IF RatLe(progress, Rat(0)) THEN <<1, 100>>
    ELSE IF RatLt(Rat(1), progress) THEN Rat(1)
    ELSE progress

\* the rectangles drawn, in order: the background, then the foreground
progress_bar(x, y, w, h, progress, vertical) ==
    LET p == bar_fraction(progress)
        bg == << Rat(x), Rat(y), Rat(x + w), Rat(y + h) >>
        fg == IF vertical
              THEN LET dh == RatMul(Rat(h), p)
                   IN  << Rat(x), RatSub(Rat(y + h), dh), Rat(x + w), Rat(y + h) >>
              ELSE LET dw == RatMul(Rat(w), p)
                   IN  << Rat(x), Rat(y), RatAdd(Rat(x), dw), Rat(y + h) >>
    IN  << bg, fg >>

\* ---------------------------------------------------------------------
\* calc_progress_custom, src/kodi_panel_fb.py lines 182-214.  A string is the
\* sequence of its characters.

\* the time labels handed to calc_progress: Kodi's "MM:SS" and "H:MM:SS",
\* the empty label, and labels of one and of four components
TimeStrs ==
    {
      <<>>,                                         \* ""
      <<"0", "0", ":", "0", "0">>,                  \* "00:00"
      <<"0", "1", ":", "3", "0">>,                  \* "01:30"
      <<"0", "3", ":", "0", "0">>,                  \* "03:00"
      <<"0", "5", ":", "0", "0">>,                  \* "05:00"
      <<"1", "2", ":", "0", "0">>,                  \* "12:00"
      <<"2", "0", ":", "0", "0">>,                  \* "20:00"
      <<"4", "0", ":", "0", "0">>,                  \* "40:00"
      <<"1", ":", "0", "0", ":", "0", "0">>,        \* "1:00:00"
      <<"3", "0">>,                                 \* "30"
      <<"9", "0">>,                                 \* "90"
      <<"1", ":", "0", ":", "0", ":", "0">>         \* "1:0:0:0"
    }

LayoutNames == { "V_PVR", "V_DEFAULT" }

\* str.count(":")
count(str, ch) == Cardinality({ i \in 1..Len(str) : str[i] = ch })

\* str.split(':')
RECURSIVE split(_)
split(str) ==
    IF count(str, ":") = 0
    THEN << str >>
    ELSE LET k == CHOOSE i \in 1..Len(str) :
                      str[i] = ":" /\ \A j \in 1..(i-1) : str[j] # ":"
         IN  << SubSeq(str, 1, k-1) >> \o split(SubSeq(str, k+1, Len(str)))

DigitVal(ch) ==
    CASE ch = "0" -> 0 [] ch = "1" -> 1 [] ch = "2" -> 2 [] ch = "3" -> 3
      [] ch = "4" -> 4 [] ch = "5" -> 5 [] ch = "6" -> 6 [] ch = "7" -> 7
      [] ch = "8" -> 8 [] ch = "9" -> 9

\* int(x) for a string of decimal digits
RECURSIVE int(_)
int(x) ==
    IF Len(x) = 1 THEN DigitVal(x[1])
    ELSE 10 * int(SubSeq(x, 1, Len(x)-1)) + DigitVal(x[Len(x)])

\* a sum that weighs the components by powers of 100
RECURSIVE secs_centesimal(_)
secs_centesimal(parts) ==
    IF Len(parts) = 0 THEN 0
    ELSE int(parts[Len(parts)]) + 100 * secs_centesimal(SubSeq(parts, 1, Len(parts)-1))

\* lines 189-198: sum(int(x) * 60 ** i for i, x in enumerate(reversed(parts)))
RECURSIVE secs(_)
secs(parts) ==
    IF Len(parts) = 0 THEN 0
    ELSE int(parts[Len(parts)]) + 60 * secs(SubSeq(parts, 1, Len(parts)-1))

\* a guard that lets every number of colons through
colons_ok_any(str) == TRUE

\* lines 185-186: 1 <= str.count(":") <= 2
colons_ok(str) == 1 <= count(str, ":") /\ count(str, ":") <= 2

\* the offsets taken off whatever the layout
pvr_offsets_always(layout) == <<600, 1200>>

\* lines 199-201: what is taken off cur_secs and off total_secs
pvr_offsets(layout) == IF layout = "V_PVR" THEN <<600, 1200>> ELSE <<0, 0>>

\* a quotient that is not capped
ratio_uncapped(cur_secs, total_secs) ==
    IF cur_secs >= 0 /\ total_secs > 0
    THEN <<cur_secs, total_secs>>
    ELSE <<-1, 1>>

\* lines 208-214
ratio(cur_secs, total_secs) ==
    IF cur_secs >= 0 /\ total_secs > 0
    THEN IF cur_secs >= total_secs THEN <<1, 1>> ELSE <<cur_secs, total_secs>>
    ELSE <<-1, 1>>

calc_progress_custom(t_str, d_str, layout) ==
    IF t_str = <<>> \/ d_str = <<>>
    THEN <<-1, 1>>
    ELSE IF ~(colons_ok(t_str) /\ colons_ok(d_str))
    THEN <<-1, 1>>
    ELSE LET cur_secs   == secs(split(t_str)) - pvr_offsets(layout)[1]
             total_secs == secs(split(d_str)) - pvr_offsets(layout)[2]
         IN  ratio(cur_secs, total_secs)

VARIABLES
    pc,              \* position of each thread
    lock,            \* threading.Lock: TRUE when held
    holder,          \* the thread whose acquire() took the lock last
    crashed,         \* an exception left main(): the process is gone
    raised,          \* the thread whose pass an exception ended, until the
                     \* next pass starts
    kodi_active, screen_press, screen_on, screen_offtime,
    audio_dmode, last_image_path, last_thumb,
    response,        \* per thread: result of Player.GetActivePlayers
    pressed,         \* per thread: what "if screen_press" read in this pass
    track_cover,     \* per thread: track_info['MusicPlayer.Cover']
    prog,            \* per thread: prog of update_display
    image,           \* the Pillow image the passes draw on
    shown,           \* what device.display() put on the panel last
    backlight,       \* device.backlight state
    kodi,            \* the server: "up", "down" (connections fail), "bad"
    now,             \* datetime.now(), seconds
    n_press, n_outage,
    n_next,          \* history: how often update_display applied next() to audio_dmode
    expired,         \* history: the last pass to start found the off-time reached and cleared screen_on
    \* history of the run, read by the properties only
    entry_dmode,     \* audio_dmode when the pass in progress took the lock
    pending,         \* a press set the flag during the pass in progress,
                     \* "early" (before the pass read the flag) or "late";
                     \* "released_early" / "released_late" once that pass has
                     \* released the lock; "no" otherwise
    owes,            \* per thread: its pass is the first after such a
                     \* release ("early" / "late"), else "no"
    owed,            \* a press was delivered with kodi_active true and no
                     \* pass that started after it has reached its blit yet
    covers,          \* per thread: its pass started after that press
    exc,             \* the kind of the exception that ended that pass
    art,             \* per thread: how get_artwork resolved in this pass
    slot,            \* the last call of get_artwork since the cache was
                     \* reset that did not return the cached image: the
                     \* cover reported to it and how it ended
    \* the functions taken alone: an argument and the result of applying them
    mode0,           \* a member of ADisplay
    mode,            \* next() applied to it 'applied' times
    applied,
    time_str, duration_str, layout_name,   \* arguments of calc_progress
    progress,        \* its result, NotCalled before the call
    args,            \* the other functions: the function called and its
                     \* arguments
    out              \* what the call drew or returned, NoOut before it

vars == << pc, lock, holder, crashed, raised, exc, kodi_active, screen_press, screen_on,
           screen_offtime, audio_dmode, last_image_path, last_thumb, response,
           pressed, track_cover, prog, image, shown, backlight, kodi,
           now, n_press, n_outage, n_next, expired, entry_dmode, pending, owes, owed, covers,
           art, slot, mode0, mode, applied, time_str, duration_str, layout_name,
           progress, args, out >>

shared == << screen_on, screen_offtime, audio_dmode, last_image_path, last_thumb >>
locals == << response, pressed, track_cover, prog, art >>
panel  == << image, shown, backlight >>
env    == << kodi, now, n_press, n_outage >>
hist   == << entry_dmode, pending, owes, owed, covers, n_next, expired >>
funcs  == << mode0, mode, applied, time_str, duration_str, layout_name, progress,
             args, out >>
driver == << pc, lock, holder, crashed, raised, exc, kodi_active, screen_press, shared,
             slot, locals, panel, env, hist >>

\* the positions inside update_display, between lock.acquire and lock.release
PassPcs == { "ud_expire", "ud_get_players", "ud_idle_press", "ud_idle_wake",
             "ud_idle_status", "ud_audio_press", "ud_audio_next",
             "ud_get_labels", "ud_get_prog", "ud_audio_screens", "ud_display" }

InPass(t) == pc[t] \in PassPcs

\* the positions of a pass that has not read screen_press yet (lines 547, 583)
BeforeReadPcs == { "ud_expire", "ud_get_players", "ud_idle_press", "ud_audio_press" }

\* the branch taken when any active player is an audio player
IsAudio_any(result) == \E i \in 1..Len(result) : result[i] = "audio"

\* the first test of update_display's branch, lines 540-541, negated
IsAudio(result) == ~(Len(result) = 0 \/ result[1] # "audio")

DriverInit ==
    /\ pc = [t \in Threads |-> IF t = "main" THEN "main_placeholder" ELSE "touch_idle"]
    /\ lock = FALSE
    /\ holder = None
    /\ crashed = FALSE
    /\ raised = None
    /\ kodi_active = FALSE
    /\ screen_press = FALSE
    /\ screen_on = FALSE
    /\ screen_offtime = 0
    /\ audio_dmode = "DEFAULT"
    /\ last_image_path = None
    /\ last_thumb = NoImg
    /\ response = [t \in Threads |-> <<>>]
    /\ pressed = [t \in Threads |-> FALSE]
    /\ track_cover = [t \in Threads |-> ""]
    /\ prog = [t \in Threads |-> -1]
    /\ image = "blank"
    /\ shown = "blank"
    /\ backlight = FALSE
    /\ kodi \in {"up", "down"}
    /\ now = 0
    /\ n_press = 0
    /\ n_outage = 0
    /\ n_next = 0
    /\ expired = FALSE
    /\ entry_dmode = "DEFAULT"
    /\ pending = "no"
    /\ owes = [t \in Threads |-> "no"]
    /\ owed = FALSE
    /\ covers = [t \in Threads |-> FALSE]
    /\ exc = None
    /\ art = [t \in Threads |-> "none"]
    /\ slot = NoSlot

\* the driver as it starts; the functions taken alone are not part of it
Init ==
    /\ DriverInit
    /\ mode0 = ADisplay[1] /\ mode = mode0 /\ applied = 0
    /\ time_str = <<>> /\ duration_str = <<>> /\ layout_name = ""
    /\ progress = NotCalled
    /\ args = NoArgs /\ out = NoOut

Goto(t, p) == pc' = [pc EXCEPT ![t] = p]

\* where update_display returns to
Return(t) == IF t = "main" THEN "main_sleep" ELSE "touch_idle"

\* main without its except clause: every exception of its pass ends the process
Raise_uncaught(t, kind) ==
    /\ raised' = t
    /\ exc' = kind
    /\ IF t = "touch"
       THEN Goto(t, "touch_idle") /\ UNCHANGED crashed
       ELSE Goto(t, "main_dead") /\ crashed' = TRUE

\* An exception leaves update_display.  In touch_callback the bare except
\* swallows it (lines 644-647); in main only the two connection errors are
\* caught (lines 703-707), anything else leaves main and ends the process.
\* Nothing releases the lock on the way out.
Raise(t, kind) ==
    /\ raised' = t
    /\ exc' = kind
    /\ IF t = "touch"
       THEN Goto(t, "touch_idle") /\ UNCHANGED crashed
       ELSE IF kind = "conn"
            THEN Goto(t, "main_except") /\ UNCHANGED crashed
            ELSE Goto(t, "main_dead") /\ crashed' = TRUE

\* requests.post(...).json() followed by the use of response['result']
ReqOk   == kodi = "up"
ReqKind == IF kodi = "down" THEN "conn" ELSE "other"

\* the locals of update_display die when it returns or raises
ClearLocals(t) ==
    /\ response' = [response EXCEPT ![t] = <<>>]
    /\ pressed' = [pressed EXCEPT ![t] = FALSE]
    /\ track_cover' = [track_cover EXCEPT ![t] = ""]
    /\ prog' = [prog EXCEPT ![t] = -1]
    /\ art' = [art EXCEPT ![t] = "none"]

\* an entry to the wait loop that draws nothing
main_placeholder_nodraw ==
    /\ UNCHANGED funcs
    /\ pc["main"] = "main_placeholder" /\ ~crashed
    /\ backlight' = TRUE
    /\ Goto("main", "main_ping")
    /\ UNCHANGED << hist, lock, holder, crashed, raised, exc, kodi_active, screen_press, shared,
                    slot, locals, image, shown, env >>

\* ------------------------------------------------------------------ main()
\* lines 670-673: the placeholder is drawn on the shared image and displayed
main_placeholder ==
    /\ UNCHANGED funcs
    /\ pc["main"] = "main_placeholder" /\ ~crashed
    /\ backlight' = TRUE
    /\ image' = "waiting"
    /\ shown' = "waiting"
    /\ Goto("main", "main_ping")
    /\ UNCHANGED << hist, lock, holder, crashed, raised, exc, kodi_active, screen_press, shared, slot, locals, env >>

\* lines 677-692: JSONRPC.Ping; anything but 'pong' leads to time.sleep(5)
main_ping ==
    /\ UNCHANGED funcs
    /\ pc["main"] = "main_ping" /\ ~crashed
    /\ Goto("main", IF kodi = "up" THEN "main_connected" ELSE "main_ping_sleep")
    /\ UNCHANGED << hist, lock, holder, crashed, raised, exc, kodi_active, screen_press, shared, slot, locals, panel, env >>

\* lines 687, 691: time.sleep(5), then the ping loop again
main_ping_sleep ==
    /\ UNCHANGED funcs
    /\ pc["main"] = "main_ping_sleep" /\ ~crashed
    /\ Goto("main", "main_ping")
    /\ UNCHANGED << hist, lock, holder, crashed, raised, exc, kodi_active, screen_press, shared, slot, locals, panel, env >>

\* lines 694-698
main_connected ==
    /\ UNCHANGED funcs
    /\ pc["main"] = "main_connected" /\ ~crashed
    /\ backlight' = FALSE
    /\ kodi_active' = TRUE
    /\ Goto("main", "main_clear_press")
    /\ UNCHANGED << hist, lock, holder, crashed, raised, exc, screen_press, shared, slot, locals, image, shown, env >>

\* line 699
main_clear_press ==
    /\ UNCHANGED funcs
    /\ pc["main"] = "main_clear_press" /\ ~crashed
    /\ screen_press' = FALSE
    /\ Goto("main", "ud_acquire")
    /\ UNCHANGED << hist, lock, holder, crashed, raised, exc, kodi_active, shared, slot, locals, panel, env >>

\* lines 703-707: the except clause of the update loop
main_except ==
    /\ UNCHANGED funcs
    /\ pc["main"] = "main_except" /\ ~crashed
    /\ kodi_active' = FALSE
    /\ Goto("main", "main_placeholder")
    /\ UNCHANGED << hist, lock, holder, crashed, raised, exc, screen_press, shared, slot, locals, panel, env >>

\* line 710: time.sleep(0.91), then update_display() again
main_sleep ==
    /\ UNCHANGED funcs
    /\ pc["main"] = "main_sleep" /\ ~crashed
    /\ Goto("main", "ud_acquire")
    /\ UNCHANGED << hist, lock, holder, crashed, raised, exc, kodi_active, screen_press, shared, slot, locals, panel, env >>

\* --------------------------------------------------------- touch_callback
\* line 641, run when the touch interrupt fires
touch_press ==
    /\ UNCHANGED funcs
    /\ UNCHANGED << n_next, expired >>
    /\ pc["touch"] = "touch_idle" /\ ~crashed
    /\ n_press < MaxPress
    /\ screen_press' = TRUE
    /\ n_press' = n_press + 1
    /\ Goto("touch", "touch_check")
    /\ pending' = IF \E h \in Threads : InPass(h)
                  THEN IF \E h \in Threads : pc[h] \in BeforeReadPcs THEN "early" ELSE "late"
                  ELSE pending
    /\ UNCHANGED << entry_dmode, owes, owed, covers >>
    /\ UNCHANGED << lock, holder, crashed, raised, exc, kodi_active, shared, slot, locals, panel, kodi, now, n_outage >>

\* line 643
touch_check ==
    /\ UNCHANGED funcs
    /\ UNCHANGED << n_next, expired >>
    /\ pc["touch"] = "touch_check" /\ ~crashed
    /\ Goto("touch", IF kodi_active THEN "ud_acquire" ELSE "touch_idle")
    /\ owed' = (owed \/ kodi_active)
    /\ UNCHANGED << entry_dmode, pending, owes, covers >>
    /\ UNCHANGED << lock, holder, crashed, raised, exc, kodi_active, screen_press, shared, slot, locals, panel, env >>

\* --------------------------------------------------------- update_display
\* update_display without a lock that excludes: acquire() never blocks
ud_acquire_nolock(t) ==
    /\ UNCHANGED funcs
    /\ UNCHANGED << n_next, expired >>
    /\ pc[t] = "ud_acquire" /\ ~crashed
    /\ lock' = TRUE
    /\ holder' = t
    /\ Goto(t, "ud_expire")
    /\ entry_dmode' = audio_dmode
    /\ owes' = [owes EXCEPT ![t] = IF pending = "released_early" THEN "early"
                                   ELSE IF pending = "released_late" THEN "late"
                                   ELSE "no"]
    /\ pending' = "no"
    /\ covers' = [covers EXCEPT ![t] = owed]
    /\ UNCHANGED owed
    /\ raised' = None
    /\ exc' = None
    /\ UNCHANGED << crashed, kodi_active, screen_press, shared, slot, locals, panel, env >>

\* line 522: lock.acquire() blocks while the lock is held
ud_acquire(t) ==
    /\ UNCHANGED funcs
    /\ UNCHANGED << n_next, expired >>
    /\ pc[t] = "ud_acquire" /\ ~crashed
    /\ ~lock
    /\ lock' = TRUE
    /\ holder' = t
    /\ Goto(t, "ud_expire")
    /\ entry_dmode' = audio_dmode
    /\ owes' = [owes EXCEPT ![t] = IF pending = "released_early" THEN "early"
                                   ELSE IF pending = "released_late" THEN "late"
                                   ELSE "no"]
    /\ pending' = "no"
    /\ covers' = [covers EXCEPT ![t] = owed]
    /\ UNCHANGED owed
    /\ raised' = None
    /\ exc' = None
    /\ UNCHANGED << crashed, kodi_active, screen_press, shared, slot, locals, panel, env >>

\* lines 525-530
ud_expire(t) ==
    /\ UNCHANGED funcs
    /\ pc[t] = "ud_expire" /\ ~crashed
    /\ image' = "blank"
    /\ expired' = (screen_on /\ now >= screen_offtime)
    /\ IF screen_on /\ now >= screen_offtime
       THEN screen_on' = FALSE /\ backlight' = FALSE
       ELSE UNCHANGED << screen_on, backlight >>
    /\ Goto(t, "ud_get_players")
    /\ UNCHANGED << entry_dmode, pending, owes, owed, covers, n_next >>
    /\ UNCHANGED << lock, holder, crashed, raised, exc, kodi_active, screen_press, screen_offtime,
                    audio_dmode, last_image_path, last_thumb, slot, locals, shown, env >>

\* lines 533-541: Player.GetActivePlayers and the branch on its result
ud_get_players(t) ==
    /\ UNCHANGED funcs
    /\ pc[t] = "ud_get_players" /\ ~crashed
    /\ IF ReqOk
       THEN \E r \in PlayerLists :
               /\ response' = [response EXCEPT ![t] = r]
               /\ Goto(t, IF IsAudio(r) THEN "ud_audio_press" ELSE "ud_idle_press")
               /\ UNCHANGED << crashed, raised, exc, pressed, track_cover, prog, art >>
       ELSE Raise(t, ReqKind) /\ ClearLocals(t)
    /\ UNCHANGED << hist, lock, holder, kodi_active, screen_press, shared, slot, panel, env >>

\* an idle branch that leaves the artwork cache as it was
ud_idle_press_keep(t) ==
    /\ UNCHANGED funcs
    /\ pc[t] = "ud_idle_press" /\ ~crashed
    /\ pressed' = [pressed EXCEPT ![t] = screen_press]
    /\ Goto(t, IF screen_press THEN "ud_idle_wake" ELSE "ud_idle_status")
    /\ UNCHANGED << hist, lock, holder, crashed, raised, exc, kodi_active, screen_press, screen_on,
                    screen_offtime, audio_dmode, last_image_path, last_thumb, slot,
                    response, track_cover, prog, art, panel, env >>

\* lines 544-547: the cache reset and the read of the press flag
ud_idle_press(t) ==
    /\ UNCHANGED funcs
    /\ pc[t] = "ud_idle_press" /\ ~crashed
    /\ last_image_path' = None
    /\ last_thumb' = NoImg
    /\ slot' = NoSlot
    /\ pressed' = [pressed EXCEPT ![t] = screen_press]
    /\ Goto(t, IF screen_press THEN "ud_idle_wake" ELSE "ud_idle_status")
    /\ UNCHANGED << hist, lock, holder, crashed, raised, exc, kodi_active, screen_press, screen_on,
                    screen_offtime, audio_dmode, response, track_cover, prog, art, panel, env >>

\* a press in the idle branch that also switches the audio mode
ud_idle_wake_next(t) ==
    /\ UNCHANGED funcs
    /\ pc[t] = "ud_idle_wake" /\ ~crashed
    /\ screen_press' = FALSE
    /\ backlight' = TRUE
    /\ screen_on' = TRUE
    /\ screen_offtime' = now + screen_wake
    /\ audio_dmode' = ADisplay_next(audio_dmode)
    /\ n_next' = n_next + 1
    /\ Goto(t, "ud_idle_status")
    /\ UNCHANGED << entry_dmode, pending, owes, owed, covers, expired >>
    /\ UNCHANGED << lock, holder, crashed, raised, exc, kodi_active, last_image_path,
                    last_thumb, slot, locals, image, shown, env >>

\* lines 548-551
ud_idle_wake(t) ==
    /\ UNCHANGED funcs
    /\ pc[t] = "ud_idle_wake" /\ ~crashed
    /\ screen_press' = FALSE
    /\ backlight' = TRUE
    /\ screen_on' = TRUE
    /\ screen_offtime' = now + screen_wake
    /\ Goto(t, "ud_idle_status")
    /\ UNCHANGED << hist, lock, holder, crashed, raised, exc, kodi_active, audio_dmode, last_image_path,
                    last_thumb, slot, locals, image, shown, env >>

\* len(kodi_status['System.Time'].split(" ")) for the times the server
\* reports: "10:15 PM" and "22:15"
TimeParts == { 2, 1 }

\* lines 553-575 and 379-396: the status screen when the screen is on, else
\* backlight off
ud_idle_status(t) ==
    /\ UNCHANGED funcs
    /\ pc[t] = "ud_idle_status" /\ ~crashed
    /\ IF screen_on
       THEN IF ReqOk
            THEN \E time_parts \in TimeParts :
                 IF time_parts >= 2
                 THEN /\ image' = "status"
                      /\ Goto(t, "ud_display")
                      /\ UNCHANGED << crashed, raised, exc, locals, backlight >>
                 ELSE \* line 392: time_parts[1] raises IndexError
                      Raise(t, "other") /\ ClearLocals(t) /\ UNCHANGED << image, backlight >>
            ELSE Raise(t, ReqKind) /\ ClearLocals(t) /\ UNCHANGED << image, backlight >>
       ELSE /\ backlight' = FALSE
            /\ Goto(t, "ud_display")
            /\ UNCHANGED << crashed, raised, exc, locals, image >>
    /\ UNCHANGED << hist, lock, holder, kodi_active, screen_press, shared, slot, shown, env >>

\* an audio branch that leaves the backlight as it was
ud_audio_press_dark(t) ==
    /\ UNCHANGED funcs
    /\ pc[t] = "ud_audio_press" /\ ~crashed
    /\ pressed' = [pressed EXCEPT ![t] = screen_press]
    /\ Goto(t, IF screen_press THEN "ud_audio_next" ELSE "ud_get_labels")
    /\ UNCHANGED << hist, lock, holder, crashed, raised, exc, kodi_active, screen_press, shared, slot,
                    response, track_cover, prog, art, panel, env >>

\* lines 579-583: backlight on and the read of the press flag
ud_audio_press(t) ==
    /\ UNCHANGED funcs
    /\ pc[t] = "ud_audio_press" /\ ~crashed
    /\ backlight' = TRUE
    /\ pressed' = [pressed EXCEPT ![t] = screen_press]
    /\ Goto(t, IF screen_press THEN "ud_audio_next" ELSE "ud_get_labels")
    /\ UNCHANGED << hist, lock, holder, crashed, raised, exc, kodi_active, screen_press, shared, slot,
                    response, track_cover, prog, art, image, shown, env >>

\* a mode switch that leaves the artwork cache as it was
ud_audio_next_keep(t) ==
    /\ UNCHANGED funcs
    /\ pc[t] = "ud_audio_next" /\ ~crashed
    /\ screen_press' = FALSE
    /\ audio_dmode' = ADisplay_next(audio_dmode)
    /\ n_next' = n_next + 1
    /\ Goto(t, "ud_get_labels")
    /\ UNCHANGED << entry_dmode, pending, owes, owed, covers, expired >>
    /\ UNCHANGED << lock, holder, crashed, raised, exc, kodi_active, screen_on, screen_offtime,
                    last_image_path, last_thumb, slot, locals, panel, env >>

\* a mode switch that leaves the press flag set
ud_audio_next_sticky(t) ==
    /\ UNCHANGED funcs
    /\ pc[t] = "ud_audio_next" /\ ~crashed
    /\ audio_dmode' = ADisplay_next(audio_dmode)
    /\ n_next' = n_next + 1
    /\ last_image_path' = None
    /\ last_thumb' = NoImg
    /\ slot' = NoSlot
    /\ Goto(t, "ud_get_labels")
    /\ UNCHANGED << entry_dmode, pending, owes, owed, covers, expired >>
    /\ UNCHANGED << lock, holder, crashed, raised, exc, kodi_active, screen_press, screen_on,
                    screen_offtime, locals, panel, env >>

\* lines 584-588
ud_audio_next(t) ==
    /\ UNCHANGED funcs
    /\ pc[t] = "ud_audio_next" /\ ~crashed
    /\ screen_press' = FALSE
    /\ audio_dmode' = ADisplay_next(audio_dmode)
    /\ n_next' = n_next + 1
    /\ last_image_path' = None
    /\ last_thumb' = NoImg
    /\ slot' = NoSlot
    /\ Goto(t, "ud_get_labels")
    /\ UNCHANGED << entry_dmode, pending, owes, owed, covers, expired >>
    /\ UNCHANGED << lock, holder, crashed, raised, exc, kodi_active, screen_on, screen_offtime,
                    locals, panel, env >>

\* lines 591-610: XBMC.GetInfoLabels for the track
ud_get_labels(t) ==
    /\ UNCHANGED funcs
    /\ pc[t] = "ud_get_labels" /\ ~crashed
    /\ IF ReqOk
       THEN \E c \in Covers \cup {Missing} :
               /\ track_cover' = [track_cover EXCEPT ![t] = c]
               /\ Goto(t, "ud_get_prog")
               /\ UNCHANGED << crashed, raised, exc, response, pressed, prog, art >>
       ELSE Raise(t, ReqKind) /\ ClearLocals(t)
    /\ UNCHANGED << hist, lock, holder, kodi_active, screen_press, shared, slot, panel, env >>

\* lines 614-627: Player.GetProperties
ud_get_prog(t) ==
    /\ UNCHANGED funcs
    /\ pc[t] = "ud_get_prog" /\ ~crashed
    /\ IF ReqOk
       THEN \E p \in ProgValues :
               /\ prog' = [prog EXCEPT ![t] = p]
               /\ Goto(t, "ud_audio_screens")
               /\ UNCHANGED << crashed, raised, exc, response, pressed, track_cover, art >>
       ELSE Raise(t, ReqKind) /\ ClearLocals(t)
    /\ UNCHANGED << hist, lock, holder, kodi_active, screen_press, shared, slot, panel, env >>

\* what the image download of get_artwork can come to (lines 314-334):
\* a decodable image, bytes Image.open rejects, a status other than 200, or
\* a Files.PrepareDownload result without details/path
FetchOutcomes == { "ok", "undecodable", "http404", "nodetails" }

\* a test that never finds the cover in the cache
CacheHit_never(c, lip, prev_image) == FALSE

\* line 300: image_path == last_image_path and prev_image
CacheHit(c, lip, prev_image) == c = lip /\ prev_image # NoImg

\* a decode failure that leaves image_set false, so that lines 337-352 run
DecodeFailure_unset(c) ==
    [exc |-> "none", path |-> default_thumb,
     img |-> Img(default_thumb, 0), how |-> "undecodable"]

\* lines 330-334 after line 304: the default thumbnail stands in for bytes
\* that do not decode, image_set is true and last_image_path stays the cover
DecodeFailure(c) ==
    [exc |-> "none", path |-> c,
     img |-> Img(default_thumb, 0), how |-> "undecodable"]

\* get_artwork(info, prev_image, thumb_size), lines 285-370, for the reported
\* cover c, the global last_image_path lip, the download outcome f, the
\* answer isfile of os.path.isfile and the server state k.  The result is
\* the exception raised ("none" when it returns), the value left in
\* last_image_path, the image returned and how it was come by: "hit" (the
\* cached image, no request), "ok" / "undecodable" / "http404" (one HTTP GET
\* of the image) or "local" (a file of the panel).
GetArtwork(c, lip, prev_image, thumb_size, f, isfile, k) ==
    IF c = Missing
    THEN \* line 293: info['MusicPlayer.Cover'] raises KeyError
         [exc |-> "other", path |-> lip, img |-> prev_image, how |-> "none"]
    ELSE IF IsRemoteCover(c)
    THEN IF CacheHit(c, lip, prev_image)
         THEN \* lines 300-302: fall through and return prev_image
              [exc |-> "none", path |-> lip, img |-> prev_image, how |-> "hit"]
         ELSE IF k = "down"
         THEN \* line 304 is done, then line 314 or 322 raises
              [exc |-> "conn", path |-> c, img |-> prev_image, how |-> "none"]
         ELSE IF ~StartsWithHttp(c) /\ (k = "bad" \/ f = "nodetails")
         THEN \* line 317 raises KeyError, or line 322 finds image_url unbound
              [exc |-> "other", path |-> c, img |-> prev_image, how |-> "none"]
         ELSE IF f = "ok"
         THEN [exc |-> "none", path |-> c, img |-> Img(c, thumb_size), how |-> "ok"]
         ELSE IF f = "http404"
         THEN \* lines 337-352: nothing set, the default thumbnail
              [exc |-> "none", path |-> default_thumb,
               img |-> Img(default_thumb, 0), how |-> "http404"]
         ELSE DecodeFailure(c)
    ELSE \* lines 337-352: AirPlay or the default thumbnail
         IF SpecialMatch(c)
         THEN IF isfile
              THEN [exc |-> "none", path |-> airplay_thumb,
                    img |-> Img(airplay_thumb, thumb_size), how |-> "local"]
              ELSE [exc |-> "none", path |-> default_airplay,
                    img |-> Img(default_airplay, 0), how |-> "local"]
         ELSE [exc |-> "none", path |-> default_thumb,
               img |-> Img(default_thumb, 0), how |-> "local"]

\* the download outcomes and isfile answers that matter for the cover c
FetchChoices(c) ==
    IF c # Missing /\ IsRemoteCover(c)
    THEN { <<f, TRUE>> : f \in IF StartsWithHttp(c) THEN FetchOutcomes \ {"nodetails"}
                                                    ELSE FetchOutcomes }
    ELSE IF c # Missing /\ SpecialMatch(c)
    THEN { <<"ok", b>> : b \in BOOLEAN }
    ELSE { <<"ok", TRUE>> }

\* lines 630 and 407-504: audio_screens.  Every mode starts with
\* last_thumb = get_artwork(info, last_thumb, size); the default mode then
\* draws the text fields, of which the codec reads info['MusicPlayer.Codec']
\* unguarded (line 441); the snapshot is read for it here only.
ud_audio_screens(t) ==
    /\ UNCHANGED funcs
    /\ pc[t] = "ud_audio_screens" /\ ~crashed
    /\ \E ch \in FetchChoices(track_cover[t]), codec \in Codecs :
         LET c == track_cover[t]
             r == GetArtwork(c, last_image_path, last_thumb,
                             ThumbSize(audio_dmode), ch[1], ch[2], kodi)
         IN  /\ last_image_path' = r.path
             /\ IF r.exc # "none"
                THEN /\ Raise(t, r.exc) /\ ClearLocals(t)
                     /\ slot' = <<c, "raised">>
                     /\ UNCHANGED << last_thumb, image >>
                ELSE /\ last_thumb' = r.img
                     /\ slot' = IF r.how = "hit" THEN slot ELSE <<c, r.how>>
                     /\ IF audio_dmode = "DEFAULT" /\ codec = Missing
                        THEN \* line 441 raises KeyError
                             /\ Raise(t, "other") /\ ClearLocals(t)
                             /\ UNCHANGED image
                        ELSE /\ image' = "audio"
                             /\ art' = [art EXCEPT ![t] = r.how]
                             /\ Goto(t, "ud_display")
                             /\ UNCHANGED << crashed, raised, exc, response, pressed,
                                             track_cover, prog >>
    /\ UNCHANGED << hist, lock, holder, kodi_active, screen_press, screen_on, screen_offtime,
                    audio_dmode, shown, backlight, env >>

\* a pass that clears the press flag again when it ends
ud_display_clears(t) ==
    /\ UNCHANGED funcs
    /\ UNCHANGED << n_next, expired >>
    /\ pc[t] = "ud_display" /\ ~crashed
    /\ shown' = image
    /\ lock' = FALSE
    /\ screen_press' = FALSE
    /\ Goto(t, Return(t))
    /\ ClearLocals(t)
    /\ pending' = IF pending = "early" THEN "released_early"
                  ELSE IF pending = "late" THEN "released_late"
                  ELSE pending
    /\ owes' = [owes EXCEPT ![t] = "no"]
    /\ owed' = (owed /\ ~covers[t])
    /\ covers' = [covers EXCEPT ![t] = FALSE]
    /\ UNCHANGED entry_dmode
    /\ UNCHANGED << holder, crashed, raised, exc, kodi_active, shared, slot, image, backlight, env >>

\* lines 633-634: device.display(image), lock.release(), return
ud_display(t) ==
    /\ UNCHANGED funcs
    /\ UNCHANGED << n_next, expired >>
    /\ pc[t] = "ud_display" /\ ~crashed
    /\ shown' = image
    /\ lock' = FALSE
    /\ Goto(t, Return(t))
    /\ ClearLocals(t)
    /\ pending' = IF pending = "early" THEN "released_early"
                  ELSE IF pending = "late" THEN "released_late"
                  ELSE pending
    /\ owes' = [owes EXCEPT ![t] = "no"]
    /\ owed' = (owed /\ ~covers[t])
    /\ covers' = [covers EXCEPT ![t] = FALSE]
    /\ UNCHANGED entry_dmode
    /\ UNCHANGED << holder, crashed, raised, exc, kodi_active, screen_press, shared, slot, image, backlight, env >>

\* ------------------------------------------------------------ environment
\* the server stops answering (connections refused) or answers without the
\* expected keys
kodi_fail ==
    /\ UNCHANGED funcs
    /\ ~crashed
    /\ n_outage < MaxOutage
    /\ \E k \in {"down", "bad"} \ {kodi} : kodi' = k
    /\ n_outage' = n_outage + 1
    /\ UNCHANGED << hist, pc, lock, holder, crashed, raised, exc, kodi_active, screen_press,
                    shared, slot, locals, panel, now, n_press >>

\* the server answers properly again
kodi_recover ==
    /\ UNCHANGED funcs
    /\ ~crashed
    /\ kodi # "up"
    /\ kodi' = "up"
    /\ UNCHANGED << hist, pc, lock, holder, crashed, raised, exc, kodi_active, screen_press,
                    shared, slot, locals, panel, now, n_press, n_outage >>

\* time passes; the clock is observed in quanta of the wake time, the only
\* duration the program compares it with
Tick ==
    /\ UNCHANGED funcs
    /\ ~crashed
    /\ now + screen_wake <= MaxTime
    /\ now' = now + screen_wake
    /\ UNCHANGED << hist, pc, lock, holder, crashed, raised, exc, kodi_active, screen_press, shared, slot,
                    locals, panel, kodi, n_press, n_outage >>

MainStep ==
    \/ main_placeholder \/ main_ping \/ main_ping_sleep \/ main_connected
    \/ main_clear_press \/ main_except \/ main_sleep

TouchStep == touch_press \/ touch_check

PassStep(t) ==
    \/ ud_acquire(t) \/ ud_expire(t) \/ ud_get_players(t)
    \/ ud_idle_press(t) \/ ud_idle_wake(t) \/ ud_idle_status(t)
    \/ ud_audio_press(t) \/ ud_audio_next(t) \/ ud_get_labels(t)
    \/ ud_get_prog(t) \/ ud_audio_screens(t) \/ ud_display(t)

Next ==
    \/ MainStep
    \/ TouchStep
    \/ \E t \in Threads : PassStep(t)
    \/ kodi_fail
    \/ kodi_recover
    \/ Tick

Spec == Init /\ [][Next]_vars

\* Both threads are scheduled: the main thread keeps running its loop and the
\* callback thread runs a callback it has started.  A server that went away
\* comes back.  Presses, outages and the clock are the environment's and are
\* not forced.
FairSpec ==
    /\ Spec
    /\ WF_vars(MainStep \/ PassStep("main"))
    /\ WF_vars(touch_check \/ PassStep("touch"))
    /\ WF_vars(kodi_recover)

\* ---------------------------------------------------------------------
\* The functions taken alone: ADisplay.next and calc_progress, applied to
\* arguments drawn from small sets, with the driver at rest.

\* ---------------------------------------------------------------------
\* Snapshots.  A snapshot is a function from the labels it contains to their
\* values; info[k] for a label it does not contain raises KeyError.

\* stands for a label left out when a snapshot is built
Absent == << "<absent>" >>

\* the snapshot with the labels of vals that are not Absent
Info(vals) == [ k \in { l \in DOMAIN vals : vals[l] # Absent } |-> vals[k] ]

\* lines 421-433 of src/kodi_panel.py: the bars that the default audio mode
\* draws for the snapshot and the fraction prog, each with the fraction and whether
\* long_len is its length
audio_prog(info, fraction) ==
    IF fraction = <<-1, 1>>
    THEN [raised |-> "none", bars |-> << >>]
    ELSE IF "MusicPlayer.Time" \notin DOMAIN info
    THEN [raised |-> "KeyError", bars |-> << >>]
    ELSE [raised |-> "none",
          bars |-> << [prog |-> fraction,
                       use_long_len |-> count(info["MusicPlayer.Time"], ":") = 2] >>]

\* the outcome of check_display_expr for the field: the field has no
\* display_if / display_ifnot ("none"), or the condition evaluates "true" or
\* "false"
DisplayConds == { "none", "true", "false" }

\* lines 280-287 of src/kodi_panel_fb.py
show_prog(cond) == IF cond = "none" THEN TRUE ELSE cond = "true"

\* element_livetv_progbar, src/kodi_panel_fb.py lines 271-294: the bars
\* handed to kodi_panel_display.progress_bar
element_livetv_progbar(info, cond, layout) ==
    IF \/ "PVR.EpgEventElapsedTime" \notin DOMAIN info
       \/ "PVR.EpgEventDuration" \notin DOMAIN info
    THEN \* lines 274-275
         [raised |-> "KeyError", bars |-> << >>]
    ELSE LET fraction == calc_progress_custom(info["PVR.EpgEventElapsedTime"],
                                              info["PVR.EpgEventDuration"], layout)
         IN  IF show_prog(cond)
             THEN [raised |-> "none",
                   bars |-> << [prog |-> fraction,
                                use_long_len |->
                                    count(info["PVR.EpgEventDuration"], ":") = 2] >>]
             ELSE [raised |-> "none", bars |-> << >>]

\* ---------------------------------------------------------------------
\* truncate_text, src/kodi_panel.py lines 240-250.  A text is the sequence
\* of its characters.

\* the character "\u2026"
Ellipsis == "..."

\* pil_draw.textsize(text, font)[0]: the advance widths of the glyphs of a
\* font, a wide one, a narrow one and the others, added up
GlyphWidth(ch) == CASE ch = "m" -> 15 [] ch = "i" -> 5 [] OTHER -> 10

RECURSIVE textsize(_)
textsize(text) ==
    IF Len(text) = 0 THEN 0
    ELSE textsize(SubSeq(text, 1, Len(text) - 1)) + GlyphWidth(text[Len(text)])

\* a test that also sends a text of exactly the maximum width to the loop
too_wide_or_equal(t_width) == t_width >= frameSize[1] - 20

\* line 244: t_width > (frameSize[0] - 20)
too_wide(t_width) == t_width > frameSize[1] - 20

\* lines 244-247: new_text when the loop is left
RECURSIVE shortened(_)
shortened(new_text) ==
    IF too_wide(textsize(new_text))
    THEN shortened(SubSeq(new_text, 1, Len(new_text) - 1))
    ELSE new_text

\* the string handed to pil_draw.text
truncate_text(text) ==
    LET truncating == too_wide(textsize(text))
        new_text == shortened(text)
    IN  IF truncating THEN new_text \o << Ellipsis >> ELSE new_text

\* k times the glyph ch
Repeat(ch, k) == [ i \in 1..k |-> ch ]

\* the texts drawn: a run of wide glyphs and a short tail
Texts ==
    { Repeat("m", k) \o tail :
        k \in 0..MaxGlyphs,
        tail \in { << >>, << "i" >>, << "i", "i" >>, << Ellipsis, Ellipsis >>,
                   << "(", "B", "a", "c", "h", ")" >> } }

\* ---------------------------------------------------------------------
\* the text fields of the default audio mode, src/kodi_panel.py lines 435-478

\* codec_name, lines 89-106, as the set of its (key, value) pairs
codec_name ==
    { << << "a", "c", "3" >>, << "D", "D" >> >>,
      << << "e", "a", "c", "3" >>, << "D", "D" >> >>,
      << << "d", "t", "s", "h", "d", "_", "m", "a" >>, << "D", "T", "S", "-", "M", "A" >> >>,
      << << "d", "c", "a" >>, << "D", "T", "S" >> >>,
      << << "t", "r", "u", "e", "h", "d" >>, << "D", "D", "-", "H", "D" >> >>,
      << << "w", "m", "a", "p", "r", "o" >>, << "W", "M", "A" >> >>,
      << << "m", "p", "3", "f", "l", "o", "a", "t" >>, << "M", "P", "3" >> >>,
      << << "f", "l", "a", "c" >>, << "F", "L", "A", "C" >> >>,
      << << "a", "l", "a", "c" >>, << "A", "L", "A", "C" >> >>,
      << << "v", "o", "r", "b", "i", "s" >>, << "O", "g", "g", "V" >> >>,
      << << "a", "a", "c" >>, << "A", "A", "C" >> >>,
      << << "p", "c", "m", "_", "s", "1", "6", "b", "e" >>, << "P", "C", "M" >> >>,
      << << "m", "p", "2" >>, << "M", "P", "2" >> >>,
      << << "p", "c", "m", "_", "u", "8" >>, << "P", "C", "M" >> >>,
      << << "B", "X", "A" >>, << "A", "i", "r", "P", "l", "a", "y" >> >>,
      << << "d", "s", "d", "_", "l", "s", "b", "f", "_", "p", "l", "a", "n", "a", "r" >>, << "D", "S", "D" >> >> }

\* codec_name.keys()
codec_keys == { kv[1] : kv \in codec_name }

\* codec_name[c]
codec_lookup(c) == (CHOOSE kv \in codec_name : kv[1] = c)[2]

\* LAYOUT[ADisplay.DEFAULT]["fields"], lines 145-160; fonts and colours
\* are left out
Fields ==
    << [name |-> "MusicPlayer.Time", pos |-> << 148, 20 >>],
       [name |-> "MusicPlayer.TrackNumber", pos |-> << 148, 73 >>,
         label |-> << "T", "r", "a", "c", "k" >>, lpos |-> << 148, 60 >>],
       [name |-> "MusicPlayer.Duration", pos |-> << 230, 60 >>],
       [name |-> "codec", pos |-> << 230, 74 >>],
       [name |-> "MusicPlayer.Genre", pos |-> << 230, 88 >>, trunc |-> 1],
       [name |-> "MusicPlayer.Year", pos |-> << 230, 102 >>],
       [name |-> "MusicPlayer.Title", pos |-> << 5, 152 >>, trunc |-> 1],
       [name |-> "MusicPlayer.Album", pos |-> << 5, 180 >>, trunc |-> 1],
       [name |-> "artist", pos |-> << 5, 205 >>, trunc |-> 1] >>

\* a draw.text call: the position and the string
Text(xy, text) == [pos |-> xy, text |-> text]

\* a test that looks at the presence of the label only
has_value_present(info, name) == name \in DOMAIN info

\* lines 462-463: name in info.keys() and info[name] != ""
has_value(info, name) == name \in DOMAIN info /\ info[name] # << >>

\* a fallback that draws the composer as it is
composer_text_plain(composer) == composer

\* line 456: "(" + composer + ")"
composer_text(composer) == << "(" >> \o composer \o << ")" >>

\* lines 440-478, one pass of the loop body: the draw.text calls it makes
\* for the field f, in order, and the exception it raises
field_draws(info, f) ==
    IF f.name = "codec"
    THEN IF "MusicPlayer.Codec" \notin DOMAIN info
         THEN [raised |-> "KeyError", draws |-> << >>]
         ELSE IF info["MusicPlayer.Codec"] \in codec_keys
         THEN [raised |-> "none",
               draws |-> << Text(f.pos, codec_lookup(info["MusicPlayer.Codec"])) >>]
         ELSE [raised |-> "none", draws |-> << >>]
    ELSE IF f.name = "artist"
    THEN IF "MusicPlayer.Artist" \notin DOMAIN info
         THEN [raised |-> "KeyError", draws |-> << >>]
         ELSE IF info["MusicPlayer.Artist"] # << >>
         THEN [raised |-> "none",
               draws |-> << Text(f.pos, truncate_text(info["MusicPlayer.Artist"])) >>]
         ELSE IF "MusicPlayer.Property(Role.Composer)" \notin DOMAIN info
         THEN [raised |-> "KeyError", draws |-> << >>]
         ELSE IF info["MusicPlayer.Property(Role.Composer)"] # << >>
         THEN [raised |-> "none",
               draws |-> << Text(f.pos,
                                 truncate_text(composer_text(
                                     info["MusicPlayer.Property(Role.Composer)"]))) >>]
         ELSE [raised |-> "none", draws |-> << >>]
    ELSE IF has_value(info, f.name)
    THEN [raised |-> "none",
          draws |-> (IF "label" \in DOMAIN f THEN << Text(f.lpos, f.label) >> ELSE << >>)
                    \o << Text(f.pos, IF "trunc" \in DOMAIN f
                                      THEN truncate_text(info[f.name])
                                      ELSE info[f.name]) >>]
    ELSE [raised |-> "none", draws |-> << >>]

\* lines 436-478: the loop over the fields from index on, after the calls in
\* draws; raised_at is the name of the field whose pass raised
RECURSIVE text_fields(_, _, _)
text_fields(info, index, draws) ==
    IF index > Len(Fields)
    THEN [raised |-> "none", raised_at |-> "none", draws |-> draws]
    ELSE LET d == field_draws(info, Fields[index])
         IN  IF d.raised # "none"
             THEN [raised |-> d.raised, raised_at |-> Fields[index].name, draws |-> draws]
             ELSE text_fields(info, index + 1, draws \o d.draws)

\* the snapshots whose text fields are drawn
FieldInfos ==
    { Info([ l \in { "MusicPlayer.Time", "MusicPlayer.TrackNumber", "MusicPlayer.Duration",
                     "MusicPlayer.Codec", "MusicPlayer.Genre", "MusicPlayer.Year",
                     "MusicPlayer.Title", "MusicPlayer.Album", "MusicPlayer.Artist",
                     "MusicPlayer.Property(Role.Composer)" } |->
             CASE l = "MusicPlayer.Time" -> << "0", "1", ":", "3", "0" >>
               [] l = "MusicPlayer.TrackNumber" -> tn
               [] l = "MusicPlayer.Duration" -> Absent
               [] l = "MusicPlayer.Codec" -> cd
               [] l = "MusicPlayer.Genre" -> << >>
               [] l = "MusicPlayer.Year" -> << "1", "9", "9", "9" >>
               [] l = "MusicPlayer.Title" -> ti
               [] l = "MusicPlayer.Album" -> << "A" >>
               [] l = "MusicPlayer.Artist" -> ar
               [] l = "MusicPlayer.Property(Role.Composer)" -> co ]) :
        tn \in { Absent, << >>, << "5" >> },
        cd \in { Absent, << "f", "l", "a", "c" >>, << "o", "p", "u", "s" >> },
        ti \in { << >>, << "S", "o", "n", "g" >>, Repeat("m", MaxGlyphs) },
        ar \in { Absent, << >>, << "A", "n", "n" >> },
        co \in { Absent, << >>, << "B", "a", "c", "h" >> } }

\* ---------------------------------------------------------------------
\* the resizing of get_artwork, src/kodi_panel.py lines 353-365.  A size is
\* the pair (width, height).

\* the sizes of the covers and the thumbnail sizes of the layouts
\* (lines 136, 167, 173)
CoverSizes == { << 100, 200 >>, << 200, 100 >>, << 300, 300 >>, << 500, 275 >>,
                << 51, 51 >>, << 640, 480 >> }
ThumbSizes == { thumb_height, fullscreen_size }

\* the (orig_h, thumb_size) among the above for which the double
\* float(orig_h) * (float(thumb_size) / orig_h) falls below thumb_size
ShortProducts == { << 275, 140 >>, << 51, 235 >> }

\* lines 357-358: int(float(orig_h) * float(shrink)), the quotient and the
\* product rounded as doubles
new_width(orig_h, thumb_size) ==
    IF << orig_h, thumb_size >> \in ShortProducts THEN thumb_size - 1 ELSE thumb_size

\* lines 356-364: the size of thumb
resize(size, thumb_size) ==
    LET orig_w == size[1]
        orig_h == size[2]
        nw == new_width(orig_h, thumb_size)
    IN  IF nw > thumb_size
        THEN \* .crop((0, 0, 140, thumb_size))
             << 140, thumb_size >>
        ELSE << nw, thumb_size >>

\* the calls of the other functions
CallArgs ==
    { [fn |-> "progress_bar", bar |-> b, progress |-> f] : b \in Bars, f \in Fractions }
    \cup
    { [fn |-> "audio_prog", info |-> Info([l \in {"MusicPlayer.Time"} |-> t]), prog |-> f] :
        t \in { Absent, << >>, <<"0", "1", ":", "3", "0">>, <<"1", ":", "0", "0", ":", "0", "0">> },
        f \in { <<-1, 1>>, <<1, 2>> } }
    \cup
    { [fn |-> "livetv_progbar",
       info |-> Info([l \in {"PVR.EpgEventElapsedTime", "PVR.EpgEventDuration"} |->
                        IF l = "PVR.EpgEventElapsedTime" THEN e ELSE d]),
       cond |-> c, layout |-> "V_DEFAULT"] :
        e \in { Absent, << >>, <<"2", "0", ":", "0", "0">>, <<"1", ":", "0", "0", ":", "0", "0">> },
        d \in { Absent, <<"4", "0", ":", "0", "0">>, <<"1", ":", "0", "0", ":", "0", "0">> },
        c \in DisplayConds }
    \cup
    { [fn |-> "truncate_text", text |-> t] : t \in Texts }
    \cup
    { [fn |-> "text_fields", info |-> i] : i \in FieldInfos }
    \cup
    { [fn |-> "resize", size |-> sz, thumb_size |-> t] : sz \in CoverSizes, t \in ThumbSizes }

\* either next and calc_progress get their arguments, or one other function
\* does
FuncInit ==
    /\ DriverInit
    /\ applied = 0
    /\ progress = NotCalled
    /\ out = NoOut
    /\ \/ /\ mode0 \in { ADisplay[i] : i \in 1..Len(ADisplay) }
          /\ mode = mode0
          /\ time_str \in TimeStrs /\ duration_str \in TimeStrs
          /\ layout_name \in LayoutNames
          /\ args = NoArgs
       \/ /\ mode0 = ADisplay[1] /\ mode = mode0
          /\ time_str = <<>> /\ duration_str = <<>> /\ layout_name = "V_DEFAULT"
          /\ args \in CallArgs

\* an application that gives the mode back unchanged
apply_next_same ==
    /\ applied < MaxApply
    /\ mode' = mode
    /\ applied' = applied + 1
    /\ UNCHANGED << driver, mode0, time_str, duration_str, layout_name, progress, args, out >>

\* mode = mode.next(), lines 117-123
apply_next ==
    /\ applied < MaxApply
    /\ mode' = ADisplay_next(mode)
    /\ applied' = applied + 1
    /\ UNCHANGED << driver, mode0, time_str, duration_str, layout_name, progress, args, out >>

\* prog = calc_progress(time_str, duration_str, layout_name)
call_calc_progress ==
    /\ progress = NotCalled
    /\ progress' = calc_progress_custom(time_str, duration_str, layout_name)
    /\ UNCHANGED << driver, mode0, mode, applied, time_str, duration_str, layout_name, args, out >>

\* lines 425-433 and 500-504: a bar is drawn
call_progress_bar ==
    /\ args.fn = "progress_bar" /\ ~out.done
    /\ out' = [done |-> TRUE,
               rects |-> progress_bar(args.bar.x, args.bar.y, args.bar.w, args.bar.h,
                                      args.progress, args.bar.vertical)]
    /\ UNCHANGED << driver, mode0, mode, applied, time_str, duration_str, layout_name,
                    progress, args >>

\* the progress bar of the default audio mode
call_audio_prog ==
    /\ args.fn = "audio_prog" /\ ~out.done
    /\ out' = [done |-> TRUE, res |-> audio_prog(args.info, args.prog)]
    /\ UNCHANGED << driver, mode0, mode, applied, time_str, duration_str, layout_name,
                    progress, args >>

\* ELEMENT_CB["livetv_prog"](image, draw, info, field, screen_mode, layout_name)
call_livetv_progbar ==
    /\ args.fn = "livetv_progbar" /\ ~out.done
    /\ out' = [done |-> TRUE,
               res |-> element_livetv_progbar(args.info, args.cond, args.layout)]
    /\ UNCHANGED << driver, mode0, mode, applied, time_str, duration_str, layout_name,
                    progress, args >>

\* truncate_text(draw, xy, text, fill, font)
call_truncate_text ==
    /\ args.fn = "truncate_text" /\ ~out.done
    /\ out' = [done |-> TRUE, text |-> truncate_text(args.text)]
    /\ UNCHANGED << driver, mode0, mode, applied, time_str, duration_str, layout_name,
                    progress, args >>

\* the loop over the text fields of the default audio mode
call_text_fields ==
    /\ args.fn = "text_fields" /\ ~out.done
    /\ out' = [done |-> TRUE, res |-> text_fields(args.info, 1, << >>)]
    /\ UNCHANGED << driver, mode0, mode, applied, time_str, duration_str, layout_name,
                    progress, args >>

\* the resizing of a fetched cover
call_resize ==
    /\ args.fn = "resize" /\ ~out.done
    /\ out' = [done |-> TRUE, size |-> resize(args.size, args.thumb_size)]
    /\ UNCHANGED << driver, mode0, mode, applied, time_str, duration_str, layout_name,
                    progress, args >>

FuncNext ==
    \/ apply_next
    \/ call_calc_progress
    \/ call_progress_bar
    \/ call_audio_prog
    \/ call_livetv_progbar
    \/ call_truncate_text
    \/ call_text_fields
    \/ call_resize

FuncSpec == FuncInit /\ [][FuncNext]_vars

TypeOK ==
    /\ lock \in BOOLEAN
    /\ audio_dmode \in { ADisplay[i] : i \in 1..Len(ADisplay) }
    /\ kodi \in {"up", "down", "bad"}
    /\ now \in 0..MaxTime

\* =================================================================== claims
\* the enumeration order of ADisplay, written out
Following(m) ==
    CASE m = "DEFAULT"    -> "FULLSCREEN"
      [] m = "FULLSCREEN" -> "FULL_PROG"
      [] m = "FULL_PROG"  -> "DEFAULT"

\* the player list is non-empty and its first player is an audio player
AudioFirst(r) == Len(r) > 0 /\ r[1] = "audio"

\* the pass of t has read the press flag
AfterRead(t) == InPass(t) /\ pc[t] \notin BeforeReadPcs

\* the pass of t saw the press and acted on it: by its blit the audio mode
\* has advanced (audio playing) or the screen is awake (idle)
Acted(t) ==
    /\ pressed[t]
    /\ pc[t] = "ud_display" =>
          IF AudioFirst(response[t])
          THEN audio_dmode = Following(entry_dmode)
          ELSE screen_on /\ backlight

\* C1: at most one render pass is between lock.acquire and lock.release at
\* any time, the thread in it is the one that took the lock, and
\* audio_dmode, screen_on, screen_offtime, last_image_path and last_thumb
\* change only in a step of that thread's pass.
C1_SinglePass ==
    /\ [](/\ Cardinality({ t \in Threads : InPass(t) }) <= 1
          /\ \A t \in Threads : InPass(t) => lock /\ holder = t)
    /\ [][ shared' # shared =>
             \E t \in Threads : /\ InPass(t) /\ lock /\ holder = t
                                /\ pc'[t] # pc[t]
                                /\ \A u \in Threads \ {t} : ~InPass(u) ]_vars

\* C1 witness: the callback thread waits for the lock while the timed loop's
\* pass, which holds it, is about to write the shared state.
C1_Witness ==
    /\ pc["touch"] = "ud_acquire"
    /\ pc["main"] = "ud_audio_next"
    /\ lock /\ holder = "main"

\* C2: after a connection error in a request of main's render pass, once the
\* server answers the ping with 'pong' again (main is connected again), a
\* further render pass eventually reaches its blit.
C2_NoHang ==
    [](pc["main"] = "main_except" =>
         [](pc["main"] = "main_connected" =>
              <>(\E t \in Threads : pc[t] = "ud_display")))

\* C3 as stated: a press that sets the flag while a pass is in progress is
\* seen, and acted on, by the pass that follows the release of the lock.
C3_SeenByNextPass ==
    \A t \in Threads : (AfterRead(t) /\ owes[t] # "no") => Acted(t)

\* C3 amended: a press that sets the flag while a pass is in progress is seen
\* and acted on by that pass itself when the flag is set before the pass
\* reads it, and by the pass that follows the release of the lock when the
\* flag is set after the running pass has read it.
C3_SeenByRunningOrNextPass ==
    /\ \A t \in Threads : (AfterRead(t) /\ owes[t] = "late") => Acted(t)
    /\ \A h \in Threads : (AfterRead(h) /\ pending = "early") => Acted(h)

\* C3 witness: the pass after the release is at its blit, having seen the
\* press that arrived late in the pass before it.
C3_Witness ==
    \E t \in Threads : owes[t] = "late" /\ pc[t] = "ud_display" /\ pressed[t]

\* C4: after a press delivered while kodi_active is true, a render pass that
\* started after the press reaches its blit.
C4_RenderAfterPress == owed ~> ~owed

\* C5: a connection error in a pass of the timed loop is caught in main (the
\* process goes on), the handler clears kodi_active and goes to the placeholder
\* and the ping loop, the ping loop is left only by a ping answered 'pong',
\* and kodi_active stays false all through the wait.
C5_CaughtAndReconnect ==
    /\ [][ /\ ( /\ InPass("main") /\ exc' = "conn"
                /\ pc'["main"] \notin PassPcs \cup {"main_sleep"} )
              => ( pc'["main"] = "main_except" /\ ~crashed' )
           /\ ( pc["main"] = "main_except" /\ pc'["main"] # "main_except" )
              => ( ~kodi_active' /\ pc'["main"] = "main_placeholder" )
           /\ ( pc["main"] \in {"main_ping", "main_ping_sleep"} )
              => ( pc'["main"] \in {"main_ping", "main_ping_sleep", "main_connected"} )
           /\ ( pc["main"] # "main_connected" /\ pc'["main"] = "main_connected" )
              => ( pc["main"] = "main_ping" /\ kodi = "up" ) ]_vars
    /\ [](pc["main"] \in {"main_placeholder", "main_ping", "main_ping_sleep"}
             => ~kodi_active /\ ~crashed)

\* C5 witness: main is connected again after a connection error ended its pass.
C5_Witness ==
    /\ pc["main"] = "main_connected"
    /\ raised = "main" /\ exc = "conn"
    /\ ~crashed

\* C6: an exception in a pass started by the touch callback does not leave the
\* callback, and after it the timed loop performs a render pass again.
C6_TouchFailureRetried ==
    /\ [][ (InPass("touch") /\ raised' = "touch" /\ raised # "touch")
              => (~crashed' /\ pc'["touch"] = "touch_idle") ]_vars
    /\ ((raised = "touch") ~> InPass("main"))

\* C7: every pass that took the lock releases it: when no render pass is in
\* progress the lock is free.
C7_LockFreeWhenIdle == (\A t \in Threads : ~InPass(t)) => ~lock

\* C8: audio_dmode changes only in the step of a pass that found an audio
\* player first and found the press flag set; at its blit a pass that found
\* no audio player, or no press, has left audio_dmode as it was on entry.
C8_ModeChangeNeedsAudioAndPress ==
    /\ [][ audio_dmode' # audio_dmode =>
             \E t \in Threads : /\ pc[t] = "ud_audio_next" /\ pc'[t] # pc[t]
                                /\ AudioFirst(response[t])
                                /\ pressed[t] ]_vars
    /\ [](\A t \in Threads :
            (pc[t] = "ud_display" /\ ~(AudioFirst(response[t]) /\ pressed[t]))
               => audio_dmode = entry_dmode)

\* C8 witness: an idle pass at its blit that consumed a press, reached after
\* the mode had been advanced by an earlier audio pass.
C8_Witness ==
    \E t \in Threads : /\ pc[t] = "ud_display" /\ pressed[t]
                       /\ ~AudioFirst(response[t])
                       /\ audio_dmode # "DEFAULT"

\* C9: at its blit a pass has drawn the audio screen iff the player list is
\* non-empty and its first player is of type audio, and the idle path (blank
\* or status screen) otherwise, whatever the press flag was.
C9_DomainByPlayerType ==
    \A t \in Threads :
        pc[t] = "ud_display" =>
            /\ (image = "audio") <=> AudioFirst(response[t])
            /\ ~AudioFirst(response[t]) => image \in {"blank", "status"}

\* C9 witness: a pass that saw a press while a video player was listed before
\* an audio player is at its blit.
C9_Witness ==
    \E t \in Threads : /\ pc[t] = "ud_display" /\ pressed[t]
                       /\ response[t] = <<"video", "audio">>

\* C10: the mode switch of a pass puts audio_dmode on the member that follows
\* it in enumeration order, DEFAULT -> FULLSCREEN -> FULL_PROG -> DEFAULT, and
\* next is defined for the mode the program is in.
C10_NextFollows ==
    /\ [][ (\E t \in Threads : pc[t] = "ud_audio_next" /\ pc'[t] # pc[t])
              => audio_dmode' = Following(audio_dmode) ]_vars
    /\ [](ADisplay_next(audio_dmode) \in { ADisplay[i] : i \in 1..Len(ADisplay) })

\* C10 witness: a switch has wrapped from the last member to the first.
C10_Witness == entry_dmode = "FULL_PROG" /\ audio_dmode = "DEFAULT"

\* C11: next applied len(ADisplay) times to a mode of ADisplay gives that mode
\* back, and fewer applications (at least one) never do.
C11_CyclicClosure ==
    /\ applied = Len(ADisplay) => mode = mode0
    /\ (0 < applied /\ applied < Len(ADisplay)) => mode # mode0

\* C11 witness: the second mode is back after len(ADisplay) applications.
C11_Witness ==
    /\ mode0 = "FULLSCREEN" /\ applied = Len(ADisplay) /\ mode = mode0

\* the pass of t has advanced audio_dmode
Advanced(t) == InPass(t) /\ holder = t /\ audio_dmode # entry_dmode

\* C12: a render pass that advances audio_dmode resets last_image_path and
\* last_thumb to None in the same step, the cache is still empty when the
\* artwork is resolved, and the image drawn in that pass is not the cached
\* one: a remote cover is fetched with a GET, and an image that is resized
\* has the thumb size of the new mode's layout.
C12_ModeSwitchInvalidatesCache ==
    /\ [][ \A t \in Threads :
              (pc[t] = "ud_audio_next" /\ pc'[t] # "ud_audio_next")
              => ( /\ audio_dmode' # audio_dmode
                   /\ last_image_path' = None /\ last_thumb' = NoImg ) ]_vars
    /\ [](\A t \in Threads :
            /\ (Advanced(t) /\ pc[t] \in {"ud_get_labels", "ud_get_prog", "ud_audio_screens"})
               => (last_image_path = None /\ last_thumb = NoImg)
            /\ (Advanced(t) /\ pc[t] = "ud_display")
               => ( /\ art[t] # "hit"
                    /\ IsRemoteCover(track_cover[t])
                         => art[t] \in {"ok", "undecodable", "http404"}
                    /\ last_thumb[2] \in {0, ThumbSize(audio_dmode)}
                    /\ art[t] = "ok"
                         => last_thumb = Img(track_cover[t], ThumbSize(audio_dmode)) ))

\* C12 witness: a pass that switched to the full-screen mode is about to show
\* the cover it fetched and resized for that mode.
C12_Witness ==
    \E t \in Threads :
        /\ pc[t] = "ud_display" /\ Advanced(t) /\ audio_dmode = "FULLSCREEN"
        /\ art[t] = "ok"
        /\ last_thumb = Img("image://cover", fullscreen_size)

\* the pass of t found no player or a non-audio first player and is at its blit
IdleAtBlit(t) == pc[t] = "ud_display" /\ ~IsAudio(response[t])

\* C13: when a render pass that found no active player or a non-audio first
\* player completes, last_image_path and last_thumb are None, and an audio
\* pass that comes first after such a pass (the frame on the panel is still
\* the idle one) does not return the cached image.
C13_CacheResetOnStop ==
    /\ [][ \A t \in Threads :
              (IdleAtBlit(t) /\ pc'[t] # "ud_display")
              => (last_image_path' = None /\ last_thumb' = NoImg /\ ~lock') ]_vars
    /\ [](\A t \in Threads :
            ( /\ pc[t] = "ud_display" /\ IsAudio(response[t])
              /\ shown \in {"blank", "status"} )
            => art[t] # "hit")

\* C13 witness: after an idle pass put the status screen on the panel, an
\* audio pass has fetched the cover and is at its blit.
C13_Witness ==
    \E t \in Threads :
        /\ pc[t] = "ud_display" /\ IsAudio(response[t])
        /\ shown = "status" /\ art[t] = "ok"

\* the step in which the pass of t resolves a remote cover and goes on to
\* its blit, the call before it (no reset in between) having reported the
\* same cover and ended as one of 'hows'
ResolvesAgain(t, hows) ==
    /\ pc[t] = "ud_audio_screens" /\ pc'[t] = "ud_display"
    /\ IsRemoteCover(track_cover[t])
    /\ slot[1] = track_cover[t] /\ slot[2] \in hows

\* C14 as stated: of two consecutive resolutions that report the same remote
\* cover, the second returns the cached image without a request, whatever
\* the first GET was answered with.
C14_SecondResolutionHits ==
    [][ \A t \in Threads :
          ResolvesAgain(t, {"ok", "undecodable", "http404"})
          => (art'[t] = "hit" /\ last_thumb' = last_thumb) ]_vars

\* C14 amended: the second resolution returns the cached image without a
\* request when the first GET was answered with status 200, and performs a
\* second GET when it was answered with another status.
C14_SecondHitsAfter200 ==
    [][ \A t \in Threads :
          /\ ResolvesAgain(t, {"ok", "undecodable"})
             => ( /\ art'[t] = "hit" /\ last_thumb' = last_thumb
                  /\ last_image_path' = last_image_path )
          /\ ResolvesAgain(t, {"http404"})
             => art'[t] \in {"ok", "undecodable", "http404"} ]_vars

\* C14 witness: a pass has drawn the cached image of the cover that the
\* resolution before it fetched.
C14_Witness ==
    \E t \in Threads :
        /\ pc[t] = "ud_display" /\ art[t] = "hit"
        /\ slot = <<track_cover[t], "ok">>
        /\ last_thumb = Img(track_cover[t], ThumbSize(audio_dmode))

\* C15: when the bytes fetched for a cover do not decode, get_artwork returns
\* the default image and leaves last_image_path equal to the reported path,
\* and a later resolution that reports the same path, the cache slot being
\* untouched since, returns that image again without a fetch.
C15_DecodeFailurePopulatesCache ==
    [][ \A t \in Threads :
          /\ ( /\ pc[t] = "ud_audio_screens" /\ pc'[t] = "ud_display"
                /\ art'[t] = "undecodable" )
             => ( /\ last_image_path' = track_cover[t]
                  /\ last_thumb' = Img(default_thumb, 0)
                  /\ last_thumb' # NoImg )
          /\ ResolvesAgain(t, {"undecodable"})
             => ( /\ art'[t] = "hit"
                  /\ last_thumb' = Img(default_thumb, 0)
                  /\ slot' = slot ) ]_vars

\* C15 witness: a pass has drawn the default image from the cache, for a
\* cover whose bytes did not decode when it was fetched.
C15_Witness ==
    \E t \in Threads :
        /\ pc[t] = "ud_display" /\ art[t] = "hit"
        /\ slot = <<track_cover[t], "undecodable">>
        /\ last_image_path = track_cover[t]
        /\ last_thumb = Img(default_thumb, 0)

\* C16: a snapshot with a missing or malformed field (no MusicPlayer.Codec
\* or MusicPlayer.Cover, a System.Time of one part, a result without the
\* expected keys) never ends a render pass with an exception and never ends
\* the process: the pass skips the field and completes.
C16_MalformedFieldNotFatal == ~crashed /\ exc # "other"

\* main is in the ping loop of lines 675-692
InWaitLoop == pc["main"] \in {"main_ping", "main_ping_sleep"}

\* C17: while main is in the ping loop the frame last blitted to the device
\* is the 'Waiting to connect with Kodi...' placeholder: every entry to the
\* loop comes from drawing and displaying the placeholder, and no render
\* pass blits anything while main is in the loop.
C17_PlaceholderWhileWaiting ==
    /\ [][ /\ (~InWaitLoop /\ InWaitLoop')
              => (pc["main"] = "main_placeholder" /\ shown' = "waiting")
           /\ (InWaitLoop /\ InWaitLoop') => shown' = shown ]_vars
    /\ [](InWaitLoop => shown = "waiting")

\* C17 witness: main pings again after a connection error ended its pass,
\* while a touch callback that saw kodi_active true wants to render.
C17_Witness ==
    /\ InWaitLoop /\ raised = "main" /\ exc = "conn"
    /\ pc["touch"] = "ud_acquire"
    /\ shown = "waiting"

\* ---------------------------------------------------------------------
\* calc_progress

Called == progress # NotCalled

\* equality of two numbers p/q
RatEq(a, b) == a[1] * b[2] = b[1] * a[2]

\* the components of a non-empty label read as hours, minutes and seconds,
\* the rightmost being the seconds
Base60(str) ==
    LET p == split(str)
        n == Len(p)
    IN  CASE n = 1 -> int(p[1])
          [] n = 2 -> 60 * int(p[1]) + int(p[2])
          [] n = 3 -> 3600 * int(p[1]) + 60 * int(p[2]) + int(p[3])
          [] OTHER -> 216000 * int(p[1]) + 3600 * int(p[2]) + 60 * int(p[3]) + int(p[4])

Components(str) == Len(split(str))

\* the value stated for elapsed and total seconds e and t
Stated(e, t) ==
    IF e < 0 \/ t <= 0 THEN <<-1, 1>>
    ELSE IF e >= t THEN <<1, 1>>
    ELSE <<e, t>>

NonEmptyArgs == time_str # <<>> /\ duration_str # <<>>

\* elapsed and total seconds after the offsets the layout has
Elapsed == Base60(time_str) - (IF layout_name = "V_PVR" THEN 600 ELSE 0)
Total   == Base60(duration_str) - (IF layout_name = "V_PVR" THEN 1200 ELSE 0)

InRange ==
    \/ RatEq(progress, <<-1, 1>>)
    \/ (0 <= progress[1] /\ progress[1] <= progress[2])

\* the four examples, the two with a quotient for a layout without offset
Examples ==
    /\ (time_str = <<"0", "1", ":", "3", "0">> /\ duration_str = <<"0", "3", ":", "0", "0">> /\ layout_name # "V_PVR")
       => RatEq(progress, <<1, 2>>)
    /\ (time_str = <<"0", "0", ":", "0", "0">> /\ duration_str = <<"0", "0", ":", "0", "0">>)
       => RatEq(progress, <<-1, 1>>)
    /\ (time_str = <<>> /\ duration_str = <<"1", "2", ":", "0", "0">>)
       => RatEq(progress, <<-1, 1>>)
    /\ (time_str = <<"0", "5", ":", "0", "0">> /\ duration_str = <<"0", "3", ":", "0", "0">> /\ layout_name # "V_PVR")
       => RatEq(progress, <<1, 1>>)

\* C18 as stated: the result is -1 or lies in [0,1]; it is -1 when an input
\* is empty or when elapsed < 0 or total <= 0 after the offset, 1 when
\* elapsed >= total, and elapsed/total in every other case; the four examples.
C18_ValuesAsStated ==
    Called =>
        /\ InRange
        /\ ~NonEmptyArgs => RatEq(progress, <<-1, 1>>)
        /\ NonEmptyArgs => RatEq(progress, Stated(Elapsed, Total))
        /\ Examples

\* C18 amended: the same, with -1 also for a non-empty input that has no
\* colon or more than two, the other cases being those of inputs with one
\* or two colons.
C18_ValuesWithColonGuard ==
    Called =>
        /\ InRange
        /\ ~NonEmptyArgs => RatEq(progress, <<-1, 1>>)
        /\ ( /\ NonEmptyArgs
              /\ \/ Components(time_str) \notin {2, 3}
                 \/ Components(duration_str) \notin {2, 3} )
           => RatEq(progress, <<-1, 1>>)
        /\ ( /\ NonEmptyArgs
              /\ Components(time_str) \in {2, 3}
              /\ Components(duration_str) \in {2, 3} )
           => RatEq(progress, Stated(Elapsed, Total))
        /\ Examples

\* C18 witness: the call with "01:30" and "03:00" has returned 0.5.
C18_Witness ==
    /\ Called /\ layout_name # "V_PVR"
    /\ time_str = <<"0", "1", ":", "3", "0">> /\ duration_str = <<"0", "3", ":", "0", "0">>
    /\ RatEq(progress, <<1, 2>>)

\* min(1, e/t) for t > 0
MinOne(e, t) == IF e >= t THEN <<1, 1>> ELSE <<e, t>>

\* C19 as stated: for non-empty inputs of 1, 2 or 3 numeric components, a
\* layout without offset and total > 0, the result is
\* min(1, elapsed_seconds/total_seconds), the components read base 60.
C19_OneToThreeComponents ==
    ( /\ Called /\ NonEmptyArgs /\ layout_name # "V_PVR"
      /\ Components(time_str) \in {1, 2, 3}
      /\ Components(duration_str) \in {1, 2, 3}
      /\ Base60(duration_str) > 0 )
    => RatEq(progress, MinOne(Base60(time_str), Base60(duration_str)))

\* C19 amended: that holds for inputs of 2 or 3 components; when an input
\* has a single component the result is -1.
C19_TwoOrThreeComponents ==
    /\ ( /\ Called /\ NonEmptyArgs /\ layout_name # "V_PVR"
          /\ Components(time_str) \in {2, 3}
          /\ Components(duration_str) \in {2, 3}
          /\ Base60(duration_str) > 0 )
       => RatEq(progress, MinOne(Base60(time_str), Base60(duration_str)))
    /\ ( /\ Called /\ NonEmptyArgs
          /\ (Components(time_str) = 1 \/ Components(duration_str) = 1) )
       => RatEq(progress, <<-1, 1>>)

\* C19 witness: 20 minutes of one hour, the total given with hours.
C19_Witness ==
    /\ Called /\ layout_name # "V_PVR"
    /\ time_str = <<"2", "0", ":", "0", "0">> /\ duration_str = <<"1", ":", "0", "0", ":", "0", "0">>
    /\ RatEq(progress, <<1, 3>>)

\* both inputs pass the guards of lines 183-187
WellFormedArgs ==
    /\ NonEmptyArgs
    /\ Components(time_str) \in {2, 3} /\ Components(duration_str) \in {2, 3}

\* C20 as stated: for layout "V_PVR" one offset is taken off both the elapsed
\* and the total seconds before they are compared; for any other layout
\* nothing is taken off either.
C20_OneOffsetOffBoth ==
    (Called /\ WellFormedArgs) =>
        IF layout_name = "V_PVR"
        THEN \E d \in {600, 1200} :
                RatEq(progress, Stated(Base60(time_str) - d, Base60(duration_str) - d))
        ELSE RatEq(progress, Stated(Base60(time_str), Base60(duration_str)))

\* C20 amended: for layout "V_PVR" 600 seconds are taken off the elapsed
\* and 1200 seconds off the total; for any other layout nothing is taken off.
C20_StartAndStopOffsets ==
    (Called /\ WellFormedArgs) =>
        IF layout_name = "V_PVR"
        THEN RatEq(progress, Stated(Base60(time_str) - 600, Base60(duration_str) - 1200))
        ELSE RatEq(progress, Stated(Base60(time_str), Base60(duration_str)))

\* C20 witness: for "V_PVR", 20 minutes of 40 have returned 0.5.
C20_Witness ==
    /\ Called /\ layout_name = "V_PVR"
    /\ time_str = <<"2", "0", ":", "0", "0">> /\ duration_str = <<"4", "0", ":", "0", "0">>
    /\ RatEq(progress, <<1, 2>>)

\* ---------------------------------------------------------------------
\* progress_bar

BarDrawn == args.fn = "progress_bar" /\ out.done

\* width and height of a rectangle
RectW(r) == RatSub(r[3], r[1])
RectH(r) == RatSub(r[4], r[2])

\* rectangle r lies inside rectangle b
Inside(r, b) ==
    /\ RatLe(b[1], r[1]) /\ RatLe(b[2], r[2])
    /\ RatLe(r[3], b[3]) /\ RatLe(r[4], b[4])

\* the part of the track that the foreground fills
Filled ==
    IF args.bar.vertical
    THEN << RectH(out.rects[2])[1], RectH(out.rects[2])[2] * args.bar.h >>
    ELSE << RectW(out.rects[2])[1], RectW(out.rects[2])[2] * args.bar.w >>

\* C21: progress_bar draws the full track first and then a foreground that
\* lies inside it and has positive width and height; a fraction above 1
\* gives the foreground of fraction 1; the part of the track filled lies in
\* [0.01, 1] for every fraction.
C21_ClampedForeground ==
    BarDrawn =>
        LET b == args.bar
            bg == out.rects[1]
            fg == out.rects[2]
        IN  /\ Len(out.rects) = 2
            /\ bg = << Rat(b.x), Rat(b.y), Rat(b.x + b.w), Rat(b.y + b.h) >>
            /\ RatLt(Rat(0), RectW(fg)) /\ RatLt(Rat(0), RectH(fg))
            /\ Inside(fg, bg)
            /\ RatLt(Rat(1), args.progress)
                 => fg = progress_bar(b.x, b.y, b.w, b.h, Rat(1), b.vertical)[2]
            /\ RatLe(<<1, 100>>, Filled) /\ RatLe(Filled, Rat(1))

\* ---------------------------------------------------------------------
\* the length of the horizontal bar, and the live-TV element

\* one bar was drawn by the call of fn
OneBar(fn) == args.fn = fn /\ out.done /\ Len(out.res.bars) = 1

\* C22: the long length is used iff the elapsed-time string has 3
\* colon-separated components, the short length otherwise, in the default
\* audio layout (elapsed time MusicPlayer.Time) and in the live-TV element
\* (elapsed time PVR.EpgEventElapsedTime).
C22_LengthByElapsedTime ==
    /\ OneBar("audio_prog")
       => ( out.res.bars[1].use_long_len
            <=> Components(args.info["MusicPlayer.Time"]) = 3 )
    /\ OneBar("livetv_progbar")
       => ( out.res.bars[1].use_long_len
            <=> Components(args.info["PVR.EpgEventElapsedTime"]) = 3 )

\* ---------------------------------------------------------------------
\* truncate_text

TextDrawn == args.fn = "truncate_text" /\ out.done

\* panel width minus the margin of 20
MaxWidth == frameSize[1] - 20

\* C23: a text whose measured width is at most the maximum width (panel
\* width minus 20) is drawn as it is, nothing removed and no ellipsis added.
C23_FittingTextUntouched ==
    (TextDrawn /\ textsize(args.text) <= MaxWidth) => out.text = args.text

\* C23 witness: a text of exactly the maximum width was drawn unchanged.
C23_Witness ==
    /\ TextDrawn /\ textsize(args.text) = MaxWidth /\ Len(args.text) > 0
    /\ out.text = args.text

\* the number of ellipsis characters at the end of a text
RECURSIVE TrailingEllipses(_)
TrailingEllipses(text) ==
    IF Len(text) = 0 \/ text[Len(text)] # Ellipsis THEN 0
    ELSE 1 + TrailingEllipses(SubSeq(text, 1, Len(text) - 1))

\* C24: for a text wider than the maximum width, the string drawn (the
\* shortened prefix with the ellipsis) is at most the maximum width wide and
\* ends with exactly one ellipsis character; the loop has terminated.
C24_TruncatedTextFits ==
    (TextDrawn /\ textsize(args.text) > MaxWidth)
    => ( /\ textsize(out.text) <= MaxWidth
         /\ TrailingEllipses(out.text) = 1 )

\* ---------------------------------------------------------------------
\* labels and the artist field

FieldsDrawn == args.fn = "text_fields" /\ out.done

\* the field was reached by the loop: no earlier field raised
Reached(name) ==
    \A i \in 1..Len(Fields) :
        out.res.raised_at = Fields[i].name
        => \E j \in 1..i : Fields[j].name = name

\* the indexes of the draw calls at a position
DrawsAt(xy) == { i \in 1..Len(out.res.draws) : out.res.draws[i].pos = xy }

\* the strings drawn at a position, as a set
TextsAt(xy) == { out.res.draws[i].text : i \in DrawsAt(xy) }

\* the fields of the default audio layout that have a label
Labelled == { i \in 1..Len(Fields) : "label" \in DOMAIN Fields[i] }

\* the snapshot has a non-empty value under the label
NonEmpty(l) == l \in DOMAIN args.info /\ args.info[l] # << >>

\* C25: for every field of the default audio layout that has a label, the
\* label is drawn iff the snapshot value of the field is present and
\* non-empty, and then once and before the value; when the value is empty or
\* the key is missing neither the label nor the value is drawn and the field
\* raises no error.
C25_LabelIffValue ==
    FieldsDrawn =>
        \A i \in Labelled :
            LET f == Fields[i]
            IN  /\ Reached(f.name)
                /\ out.res.raised_at # f.name
                /\ IF NonEmpty(f.name)
                   THEN /\ TextsAt(f.lpos) = { f.label }
                        /\ TextsAt(f.pos) = { args.info[f.name] }
                        /\ Cardinality(DrawsAt(f.lpos)) = 1
                        /\ Cardinality(DrawsAt(f.pos)) = 1
                        /\ \A a \in DrawsAt(f.lpos), b \in DrawsAt(f.pos) : a < b
                   ELSE DrawsAt(f.lpos) = {} /\ DrawsAt(f.pos) = {}

\* C25 witness: the track number "5" was drawn after its label "Track", in
\* a pass over a snapshot with the labels of all fields.
C25_Witness ==
    /\ FieldsDrawn /\ out.res.raised = "none"
    /\ NonEmpty("MusicPlayer.TrackNumber")
    /\ \E a, b \in 1..Len(out.res.draws) :
           /\ a < b
           /\ out.res.draws[a] = Text(<< 148, 60 >>, << "T", "r", "a", "c", "k" >>)
           /\ out.res.draws[b] = Text(<< 148, 73 >>, << "5" >>)

\* the position of the artist field
ArtistPos == Fields[Len(Fields)].pos

\* C26: in a pass that reaches the artist field, the field renders the
\* artist name when MusicPlayer.Artist is non-empty; when the artist is
\* empty and the composer is non-empty it renders the composer in parentheses
\* (artist "" and composer "Bach" render "(Bach)"); when both are empty it
\* draws nothing.
C26_ArtistOrComposer ==
    (FieldsDrawn /\ "MusicPlayer.Codec" \in DOMAIN args.info
       /\ "MusicPlayer.Artist" \in DOMAIN args.info)
    => LET artist == args.info["MusicPlayer.Artist"]
           P == "MusicPlayer.Property(Role.Composer)"
       IN  /\ artist # << >>
              => /\ TextsAt(ArtistPos) = { artist }
                 /\ Cardinality(DrawsAt(ArtistPos)) = 1
           /\ (artist = << >> /\ P \in DOMAIN args.info)
              => LET composer == args.info[P]
                 IN  /\ composer # << >>
                        => /\ TextsAt(ArtistPos) = { << "(" >> \o composer \o << ")" >> }
                           /\ Cardinality(DrawsAt(ArtistPos)) = 1
                     /\ composer = << "B", "a", "c", "h" >>
                        => TextsAt(ArtistPos) = { << "(", "B", "a", "c", "h", ")" >> }
                     /\ composer = << >>
                        => DrawsAt(ArtistPos) = {} /\ out.res.raised = "none"

\* C26 witness: artist "" and composer "Bach" were rendered as "(Bach)".
C26_Witness ==
    /\ FieldsDrawn /\ out.res.raised = "none"
    /\ args.info["MusicPlayer.Artist"] = << >>
    /\ args.info["MusicPlayer.Property(Role.Composer)"] = << "B", "a", "c", "h" >>
    /\ out.res.draws[Len(out.res.draws)]
         = Text(<< 5, 205 >>, << "(", "B", "a", "c", "h", ")" >>)

\* ---------------------------------------------------------------------
\* display conditions

\* the live-TV progress-bar element was called for a field whose display
\* condition evaluates false
UnmetCondition == args.fn = "livetv_progbar" /\ out.done /\ args.cond = "false"

\* C27: the live-TV progress-bar element of a field whose display_if /
\* display_ifnot condition evaluates false draws no progress bar and returns
\* normally, for every snapshot, the snapshots without the PVR elapsed-time
\* or duration label included.
C27_UnmetConditionSilent ==
    UnmetCondition => (out.res.bars = << >> /\ out.res.raised = "none")

\* ---------------------------------------------------------------------
\* cover art

Resized == args.fn = "resize" /\ out.done

\* C28: a fetched cover of size (orig_w, orig_h) resized for the target
\* size t has height t and width floor(orig_w * t / orig_h), or is cropped to
\* a square of side t when that width exceeds t.
C28_AspectRatioKept ==
    Resized =>
        LET t == args.thumb_size
            w == (args.size[1] * t) \div args.size[2]
        IN  out.size = << IF w > t THEN t ELSE w, t >>

\* ---------------------------------------------------------------------
\* coalescing of presses

\* the positions of a pass after its mode switch, if it makes one
AfterNextPcs == PassPcs \ { "ud_expire", "ud_get_players", "ud_idle_press", "ud_idle_wake",
                            "ud_idle_status", "ud_audio_press", "ud_audio_next" }

\* C29: presses are coalesced, never multiplied: the pass that holds the
\* lock has advanced audio_dmode by no step or by one step of next since its
\* entry, and once it has advanced the press flag it read has been cleared
\* by it; over the run the number of mode advances is at most the number of
\* presses.
C29_PressesCoalesced ==
    /\ n_next <= n_press
    /\ \A t \in Threads :
          (InPass(t) /\ holder = t)
          => /\ audio_dmode \in { entry_dmode, ADisplay_next(entry_dmode) }
             /\ audio_dmode # entry_dmode => (pressed[t] /\ pc[t] \in AfterNextPcs)
             /\ pc[t] \in { "ud_expire", "ud_get_players", "ud_audio_press", "ud_audio_next" }
                => audio_dmode = entry_dmode

\* C29 witness: two presses arrived before one pass read the flag, and the
\* pass advanced the mode by one step and cleared the flag.
C29_Witness ==
    /\ n_press >= 2 /\ n_next = 1 /\ ~screen_press
    /\ \E t \in Threads :
          /\ InPass(t) /\ holder = t /\ pressed[t]
          /\ audio_dmode = ADisplay_next(entry_dmode)

\* ---------------------------------------------------------------------
\* the idle wake cycle

\* thread t takes the step at position p
Takes(t, p) == pc[t] = p /\ pc'[t] # p

\* C30: in a pass that finds no audio playing, a pending press sets
\* screen_on and the off-time to now + screen_wake; the status request is
\* made iff screen_on holds after the press handling, and the status screen
\* is drawn iff it does (a pass whose status request fails on the connection
\* has nothing to draw); screen_on is cleared only by a pass that starts at
\* or after the off-time, and such a pass draws no status screen unless a
\* press is pending in it.
C30_IdleWakeCycle ==
    [][ \A t \in Threads :
          /\ (Takes(t, "ud_idle_wake") /\ pressed[t])
             => (screen_on' /\ screen_offtime' = now + screen_wake)
          /\ Takes(t, "ud_idle_status")
             => /\ (image' = "status" \/ raised' = t) => screen_on
                /\ screen_on => (image' = "status" \/ (raised' = t /\ exc' = "conn"))
                /\ (expired /\ ~pressed[t]) => (~screen_on /\ image' # "status")
          /\ (screen_on /\ ~screen_on')
             => \E h \in Threads : Takes(h, "ud_expire") /\ now >= screen_offtime
      ]_vars

\* ---------------------------------------------------------------------
\* the backlight

\* thread t has done everything of its pass but device.display and the
\* release of the lock
AtEndOfPass(t) == pc[t] = "ud_display" /\ holder = t

\* C31: at the end of every completed render pass the backlight is on iff
\* the pass found audio playing or screen_on is true, whatever presses,
\* playback starts and stops, wake-time expiries and disconnects and
\* reconnects came before.
C31_BacklightConsistent ==
    \A t \in Threads :
        AtEndOfPass(t) => (backlight <=> (IsAudio(response[t]) \/ screen_on))

\* C31 witness: a pass that found audio playing while screen_on was false
\* ends with the backlight on, after the backlight(False) of main.
C31_Witness ==
    \E t \in Threads :
        /\ AtEndOfPass(t) /\ IsAudio(response[t]) /\ ~screen_on /\ backlight

====
